---- MODULE Spec2Model ----
(***************************************************************************)
(* findash: the PDF-to-transactions extraction pipeline of                 *)
(* src/pdf_processor.py (PDFProcessor), as a state machine.                *)
(*                                                                         *)
(* A Python string is a sequence of tokens.  A token is one character,     *)
(* except for a statement run (an opaque stretch of statement text with a  *)
(* known character count), the tail of a fixed message, and an element     *)
(* token (the JSON literal of one array element or top-level value).       *)
(***************************************************************************)
EXTENDS Integers, Sequences, FiniteSets, TLC

VARIABLES
    openai_api_key,     \* PDFProcessor.openai_api_key: is a credential set
    anthropic_api_key,  \* PDFProcessor.anthropic_api_key
    pc,                 \* position of the current process_pdf_file run
    pdf_file,           \* argument: how the two extraction methods behave on it
    llm_provider,       \* argument: the provider the caller chose
    extracted_text,     \* local of process_pdf_file
    provider_reply,     \* what the called provider did in this run
    llm_response,       \* local of process_pdf_file
    transactions,       \* local of process_pdf_file
    result,             \* the dict process_pdf_file returned
    api_calls,          \* network calls made in this run, per provider
    dispatches          \* process_with_llm invocations in this run

vars == <<openai_api_key, anthropic_api_key, pc, pdf_file, llm_provider,
          extracted_text, provider_reply, llm_response, transactions, result,
          api_calls, dispatches>>

\* AIStockTracker (src/stock_tracker_py.py) and its caller in src/app_py.py
VARIABLES
    tracker_pc,         \* position of the current valuation request
    portfolio_df,       \* argument of get_portfolio_value: the lots, in order
    row_index,          \* the row the loop of get_portfolio_value is at
    stock_infos,        \* what get_stock_price returned for each row so far
    holdings,           \* local of get_portfolio_value
    total_value,        \* local of get_portfolio_value (not rounded)
    total_cost,         \* local of get_portfolio_value (not rounded)
    portfolio_data,     \* the dict get_portfolio_value returned
    metrics_input,      \* argument of calculate_portfolio_metrics
    number_type,        \* the numeric type of the figures in metrics_input
    metrics,            \* what calculate_portfolio_metrics returned or raised
    quote_requests,     \* the symbols get_stock_price was called with, this call
    valuation_calls,    \* get_portfolio_value calls made so far
    previous_data       \* the dict the previous get_portfolio_value call returned

tracker_vars == <<tracker_pc, portfolio_df, row_index, stock_infos, holdings,
                  total_value, total_cost, portfolio_data, metrics_input,
                  number_type, metrics, quote_requests, valuation_calls,
                  previous_data>>

\* AIStockTracker.get_market_sentiment
VARIABLES
    sentiment_pc,       \* position of the current get_market_sentiment call
    basket_index,       \* the basket symbol the loop is at
    basket_infos,       \* what get_stock_price returned for each symbol so far
    total_change,       \* local of get_market_sentiment
    positive_count,     \* local of get_market_sentiment
    market_sentiment    \* the dict get_market_sentiment returned

sentiment_vars == <<sentiment_pc, basket_index, basket_infos, total_change,
                    positive_count, market_sentiment>>

\* FinanceDatabase (src/database_py.py): the tables the model needs
VARIABLES
    goals,              \* rows of the goals table, in insertion order
    goal_updates,       \* the update_goal calls made so far
    stored_transactions \* rows of the transactions table, in insertion order

db_vars == <<goals, goal_updates, stored_transactions>>

all_vars == <<vars, tracker_vars, sentiment_vars, db_vars>>

\* No valuation has been requested.
TrackerIdle ==
    /\ tracker_pc = "idle"
    /\ portfolio_df = <<>>
    /\ row_index = 0
    /\ stock_infos = <<>>
    /\ holdings = <<>>
    /\ total_value = 0
    /\ total_cost = 0
    /\ portfolio_data = [pending |-> TRUE]
    /\ metrics_input = <<>>
    /\ number_type = ""
    /\ metrics = [pending |-> TRUE]
    /\ quote_requests = <<>>
    /\ valuation_calls = 0
    /\ previous_data = [pending |-> TRUE]

\* No sentiment has been requested.
SentimentIdle ==
    /\ sentiment_pc = "idle"
    /\ basket_index = 0
    /\ basket_infos = <<>>
    /\ total_change = 0
    /\ positive_count = 0
    /\ market_sentiment = [pending |-> TRUE]

\* init_database on a new file: the tables exist and are empty.
DatabaseEmpty ==
    /\ goals = <<>>
    /\ goal_updates = <<>>
    /\ stored_transactions = <<>>

----------------------------------------------------------------------------
(* Bounds *)

\* Longest JSON array a provider returns in the model.
MaxLen == 2

----------------------------------------------------------------------------
(* Python strings *)

WS == {" ", "\n"}

\* Statement runs: opaque non-whitespace statement text of a known length.
StatementRuns == {"stmt49", "stmt50", "stmt600"}

Width(tok) ==
    CASE tok = "stmt49" -> 49
      [] tok = "stmt50" -> 50
      [] tok = "stmt600" -> 600
      [] OTHER -> 1

RECURSIVE len(_)
len(s) == IF s = <<>> THEN 0 ELSE Width(Head(s)) + len(Tail(s))

RECURSIVE lstrip(_)
lstrip(s) == IF s # <<>> /\ Head(s) \in WS THEN lstrip(Tail(s)) ELSE s

RECURSIVE rstrip(_)
rstrip(s) ==
    IF s # <<>> /\ s[Len(s)] \in WS THEN rstrip(SubSeq(s, 1, Len(s) - 1)) ELSE s

strip(s) == rstrip(lstrip(s))

startswith(s, prefix) ==
    Len(s) >= Len(prefix) /\ SubSeq(s, 1, Len(prefix)) = prefix

\* s[a:-b] for a >= 0, b > 0
slice(s, a, b) == IF Len(s) - b <= a THEN <<>> ELSE SubSeq(s, a + 1, Len(s) - b)

ErrorWord == <<"E", "r", "r", "o", "r">>
\* The backquote character (a TLA+ string cannot hold it).
Backquote == "BQ"
Fence == <<Backquote, Backquote, Backquote>>
FenceJson == Fence \o <<"j", "s", "o", "n">>

\* The fixed messages of the module; the last token carries str(e).
ExtractErrorMsg(cause) == ErrorWord \o <<" ", "extracting text: ", cause>>
EmptyPdfMsg == <<"PDF appears to be empty or text extraction failed">>
NoKeyMsg == ErrorWord \o <<":", " ", "No valid API key configured">>
LLMErrorMsg(cause) == ErrorWord \o <<" ", "processing with LLM: ", cause>>
\* JSONErrorMsg, had the handler's message not begun with the word Error.
JSONErrorMsg_without_error_word == <<"parsing JSON response: ", "JSONDecodeError">>

JSONErrorMsg == ErrorWord \o <<" ", "parsing JSON response: ", "JSONDecodeError">>
ValidateErrorMsg(cause) == ErrorWord \o <<" ", "validating transactions: ", cause>>

----------------------------------------------------------------------------
(* JSON values as json.loads builds them *)

JStr(s) == [t |-> "string", s |-> s, n |-> 0]
JNum(n) == [t |-> "number", s |-> "", n |-> n]
JNull == [t |-> "null", s |-> "", n |-> 0]
\* an integer literal beyond the range of a float (Python ints are unbounded)
JBigInt == [t |-> "bigint", s |-> "", n |-> 0]
JFloat(n) == [t |-> "float", s |-> "", n |-> n]
JList == [t |-> "list", s |-> "", n |-> 0]
\* an object: the keys it has, and their values (JNull under a key it lacks)
JObj(keys, date, amount, category, type, description) ==
    [t |-> "object", keys |-> keys, date |-> date, amount |-> amount,
     category |-> category, type |-> type, description |-> description]

RequiredKeys == <<"date", "amount", "category", "type">>
AllKeys == {"date", "amount", "category", "type", "description"}

\* The element literals a completion is built from.  Amounts are in cents.
ElementTable ==
    [walmart |-> JObj(AllKeys, JStr("2024-01-15"), JNum(-4567),
                      JStr("groceries"), JStr("expense"), JStr("Walmart")),
     payroll |-> JObj(AllKeys, JStr("2024-01-16"), JStr("3000.00"),
                      JStr("salary"), JStr("income"), JStr("Payroll")),
     coinbase |-> JObj(AllKeys, JStr("2024-01-17"), JNum(1250),
                       JStr("crypto"), JStr("expense"), JStr("Coinbase")),
     nodesc |-> JObj(AllKeys \ {"description"}, JStr("2024-1-5"), JNum(-300),
                     JStr("gas"), JStr("expense"), JNull),
     notype |-> JObj(AllKeys \ {"type"}, JStr("2024-01-15"), JNum(-999),
                     JStr("dining"), JNull, JStr("Cafe")),
     nocategory |-> JObj(AllKeys \ {"category"}, JStr("2024-01-15"), JNum(500),
                         JNull, JStr("income"), JStr("Gift")),
     nodate |-> JObj({"description"}, JNull, JNull, JNull, JNull,
                     JStr("Opening balance")),
     slashdate |-> JObj(AllKeys, JStr("01/15/2024"), JNum(-4567),
                        JStr("groceries"), JStr("expense"), JStr("Walmart")),
     nullamount |-> JObj(AllKeys, JStr("2024-01-15"), JNull,
                         JStr("other"), JStr("transfer"), JStr("Pending")),
     wordamount |-> JObj(AllKeys, JStr("2024-01-15"), JStr("abc"),
                         JStr("other"), JStr("expense"), JStr("Fee")),
     hugeamount |-> JObj(AllKeys, JStr("2024-01-15"), JBigInt,
                         JStr("other"), JStr("income"), JStr("Total")),
     five |-> JNum(5),
     null |-> JNull,
     word |-> JStr("n/a")]

ElementTokens == DOMAIN ElementTable

----------------------------------------------------------------------------
(* json.loads on the completions of the model *)

\* JSON whitespace between tokens is insignificant.
JsonTokens(s) == SelectSeq(s, LAMBDA c : c \notin WS)

IsArrayText(toks) ==
    /\ Len(toks) >= 2
    /\ toks[1] = "["
    /\ toks[Len(toks)] = "]"
    /\ LET inner == SubSeq(toks, 2, Len(toks) - 1)
       IN  \/ inner = <<>>
           \/ /\ Len(inner) % 2 = 1
              /\ \A i \in 1..Len(inner) :
                    IF i % 2 = 1 THEN inner[i] \in ElementTokens ELSE inner[i] = ","

ArrayItems(toks) ==
    LET inner == SubSeq(toks, 2, Len(toks) - 1)
    IN  [k \in 1..((Len(inner) + 1) \div 2) |-> ElementTable[inner[2 * k - 1]]]

\* [ok |-> TRUE, value |-> v], or [ok |-> FALSE] for json.JSONDecodeError
json_loads(s) ==
    LET toks == JsonTokens(s)
    IN  IF IsArrayText(toks)
        THEN [ok |-> TRUE, value |-> [t |-> "array", items |-> ArrayItems(toks)]]
        ELSE IF Len(toks) = 1 /\ toks[1] \in ElementTokens
        THEN [ok |-> TRUE, value |-> ElementTable[toks[1]]]
        ELSE [ok |-> FALSE]

----------------------------------------------------------------------------
(* PDFProcessor.parse_llm_response *)

\* datetime.strptime(s, '%Y-%m-%d') on the date strings of the model
ParsableDates == {"2024-01-15", "2024-01-16", "2024-01-17", "2024-1-5"}

\* float(s) on the amount strings of the model, in cents
NumericStrings == ("3000.00" :> 300000)

\* `key in transaction`: "yes", "no", or "TypeError" (not a container)
contains(transaction, key) ==
    CASE transaction.t = "object" -> IF key \in transaction.keys THEN "yes" ELSE "no"
      [] transaction.t \in {"string", "list"} -> "no"
      [] OTHER -> "TypeError"

\* all(key in transaction for key in [...]): stops at the first miss
RECURSIVE all_keys_in(_, _)
all_keys_in(transaction, keys) ==
    IF keys = <<>> THEN "yes"
    ELSE LET c == contains(transaction, Head(keys))
         IN  IF c = "yes" THEN all_keys_in(transaction, Tail(keys)) ELSE c

\* datetime.strptime(transaction['date'], '%Y-%m-%d'): "ok" or the exception
strptime(v) ==
    IF v.t # "string" THEN "TypeError"
    ELSE IF v.s \in ParsableDates THEN "ok" ELSE "ValueError"

\* float(transaction['amount'])
float(v) ==
    CASE v.t = "number" -> [exc |-> "none", value |-> JFloat(v.n)]
      [] v.t = "string" ->
            IF v.s \in DOMAIN NumericStrings
            THEN [exc |-> "none", value |-> JFloat(NumericStrings[v.s])]
            ELSE [exc |-> "ValueError", value |-> JNull]
      [] v.t = "bigint" -> [exc |-> "OverflowError", value |-> JNull]
      [] OTHER -> [exc |-> "TypeError", value |-> JNull]

\* transaction.get(key, default)
get(transaction, key, default) ==
    IF key \in transaction.keys THEN transaction[key] ELSE default

\* validated_record, had it normalised the sign of the amount by the type.
validated_record_signed(transaction) ==
    LET a == float(transaction.amount).value
        negative == IF a.n < 0 THEN a.n ELSE 0 - a.n
    IN  [date |-> transaction.date,
         amount |-> IF transaction.type = JStr("expense") THEN JFloat(negative) ELSE a,
         category |-> get(transaction, "category", JStr("other")),
         type |-> get(transaction, "type", JStr("expense")),
         description |-> get(transaction, "description", JStr(""))]

\* The record appended for an element that passed the checks.
validated_record(transaction) ==
    [date |-> transaction.date,
     amount |-> float(transaction.amount).value,
     category |-> get(transaction, "category", JStr("other")),
     type |-> get(transaction, "type", JStr("expense")),
     description |-> get(transaction, "description", JStr(""))]

\* validate_transaction, had it required only the date and amount keys.
validate_transaction_lenient(transaction) ==
    LET present == all_keys_in(transaction, <<"date", "amount">>)
    IN  IF present = "TypeError" THEN [out |-> "raise", exc |-> "TypeError"]
        ELSE IF present = "no" THEN [out |-> "skip"]
        ELSE IF strptime(transaction.date) # "ok" THEN [out |-> "skip"]
        ELSE LET f == float(transaction.amount)
             IN  IF f.exc \in {"ValueError", "TypeError"} THEN [out |-> "skip"]
                 ELSE IF f.exc # "none" THEN [out |-> "raise", exc |-> f.exc]
                 ELSE [out |-> "keep", rec |-> validated_record(transaction)]

\* One pass of the loop body: keep the record, skip the element, or raise
\* out of the loop.
validate_transaction(transaction) ==
    LET present == all_keys_in(transaction, RequiredKeys)
    IN  IF present = "TypeError" THEN [out |-> "raise", exc |-> "TypeError"]
        ELSE IF present = "no" THEN [out |-> "skip"]
        ELSE IF strptime(transaction.date) # "ok" THEN [out |-> "skip"]
        ELSE LET f == float(transaction.amount)
             IN  IF f.exc \in {"ValueError", "TypeError"} THEN [out |-> "skip"]
                 ELSE IF f.exc # "none" THEN [out |-> "raise", exc |-> f.exc]
                 ELSE [out |-> "keep", rec |-> validated_record(transaction)]

\* The loop: the validated list, or the error string of the outer handler.
RECURSIVE validate_all(_, _)
validate_all(items, validated_transactions) ==
    IF items = <<>> THEN [type |-> "list", items |-> validated_transactions]
    ELSE LET v == validate_transaction(Head(items))
         IN  CASE v.out = "raise" -> [type |-> "str", chars |-> ValidateErrorMsg(v.exc)]
               [] v.out = "skip" -> validate_all(Tail(items), validated_transactions)
               [] OTHER -> validate_all(Tail(items), Append(validated_transactions, v.rec))

\* strip_fence, had it known only the fence with the json tag.
strip_fence_json_only(response) ==
    LET cleaned_response == strip(response)
    IN  IF startswith(cleaned_response, FenceJson)
        THEN strip(slice(cleaned_response, 7, 3))
        ELSE cleaned_response

\* Lines 115-119: drop a markdown fence.
strip_fence(response) ==
    LET cleaned_response == strip(response)
    IN  IF startswith(cleaned_response, FenceJson)
        THEN strip(slice(cleaned_response, 7, 3))
        ELSE IF startswith(cleaned_response, Fence)
        THEN strip(slice(cleaned_response, 3, 3))
        ELSE cleaned_response

\* Iterating a value that is not a list: a dict yields its keys and a str
\* its characters (none of which holds the four key names); anything else
\* is not iterable.
iterate(value) ==
    CASE value.t = "array" -> validate_all(value.items, <<>>)
      [] value.t \in {"object", "string", "list"} -> [type |-> "list", items |-> <<>>]
      [] OTHER -> [type |-> "str", chars |-> ValidateErrorMsg("TypeError")]

parse_llm_response(response) ==
    LET loaded == json_loads(strip_fence(response))
    IN  IF ~loaded.ok THEN [type |-> "str", chars |-> JSONErrorMsg]
        ELSE iterate(loaded.value)

----------------------------------------------------------------------------
(* Inputs: PDF files, providers and what a called provider does *)

Ok(text) == [raises |-> FALSE, text |-> text, cause |-> ""]
Raises(cause) == [raises |-> TRUE, text |-> <<>>, cause |-> cause]

\* pdfplumber on the file: it raises, finds no text on any page (a scan), or
\* returns the pages' text, each page followed by a newline.
PrimaryOutcomes ==
    {Raises("PDFSyntaxError"), Ok(<<>>), Ok(<<"stmt49", "\n">>),
     Ok(<<"stmt50", "\n">>), Ok(ErrorWord \o <<" ", "stmt50", "\n">>)}

\* PyPDF2 on the file.
FallbackOutcomes == {Raises("PdfReadError"), Ok(<<"\n">>), Ok(<<"stmt600", "\n">>)}

\* The fallback's behaviour matters only when the primary raises or is empty.
Pdfs ==
    {[primary |-> p, fallback |-> f] : p \in {Raises("PDFSyntaxError"), Ok(<<>>)},
                                      f \in FallbackOutcomes}
    \cup {[primary |-> p, fallback |-> Raises("PdfReadError")] : p \in PrimaryOutcomes}

Providers == {"openai", "anthropic", "gemini"}

ElementSeqs == UNION {[1..n -> ElementTokens] : n \in 0..MaxLen}

RECURSIVE join(_)
join(elems) ==
    IF elems = <<>> THEN <<>>
    ELSE IF Len(elems) = 1 THEN elems
    ELSE <<Head(elems), ",", " ">> \o join(Tail(elems))

\* The JSON text of an array of element literals.
ArrayText(elems) == <<"[">> \o join(elems) \o <<"]">>

Wraps == {"none", "json", "json_padded", "plain"}

\* J as the model sends it: bare, or inside a triple-backquote fence.
wrap(w, J) ==
    CASE w = "json" -> FenceJson \o J \o Fence
      [] w = "json_padded" ->
            <<" ", "\n">> \o FenceJson \o <<"\n">> \o J \o <<"\n">> \o Fence \o <<"\n">>
      [] w = "plain" -> Fence \o <<"\n">> \o J \o <<"\n">> \o Fence
      [] OTHER -> J

NoReply ==
    [made |-> FALSE, raises |-> FALSE, cause |-> "", shape |-> "none",
     wrap |-> "none", elems |-> <<>>, text |-> <<>>]

ArrayReply(w, elems) ==
    [made |-> TRUE, raises |-> FALSE, cause |-> "", shape |-> "array",
     wrap |-> w, elems |-> elems, text |-> wrap(w, ArrayText(elems))]

OtherReply(text) ==
    [made |-> TRUE, raises |-> FALSE, cause |-> "", shape |-> "other",
     wrap |-> "none", elems |-> <<>>, text |-> text]

RaisingReply(cause) ==
    [made |-> TRUE, raises |-> TRUE, cause |-> cause, shape |-> "none",
     wrap |-> "none", elems |-> <<>>, text |-> <<>>]

\* Completions that are not a JSON array: empty, prose, prose that opens with
\* the word Error, a fenced array cut off before its end, a fence with an
\* upper-case tag, a bare object and a bare number.
OtherTexts ==
    {<<>>,
     <<"S", "o", "r", "r", "y">>,
     ErrorWord \o <<":", " ", "n", "o", "n", "e">>,
     FenceJson \o <<"\n", "[", "walmart", ",", " ", "payroll">>,
     Fence \o <<"J", "S", "O", "N", "\n", "[", "walmart", "]", "\n">> \o Fence,
     <<"walmart">>,
     <<"five">>}

Replies ==
    {ArrayReply(w, e) : w \in Wraps, e \in ElementSeqs}
    \cup {OtherReply(t) : t \in OtherTexts}
    \cup {RaisingReply("APIConnectionError")}

----------------------------------------------------------------------------
(* PDFProcessor *)

extract_text_from_pdf(pdf) ==
    IF ~pdf.primary.raises THEN pdf.primary.text
    ELSE IF ~pdf.fallback.raises THEN pdf.fallback.text
    ELSE ExtractErrorMsg(pdf.fallback.cause)

NoCalls == [openai |-> 0, anthropic |-> 0]

\* create, had it tried once more after the client raised.
create_with_retry(name, reply) ==
    [response |-> IF reply.raises THEN LLMErrorMsg(reply.cause) ELSE strip(reply.text),
     calls |-> [NoCalls EXCEPT ![name] = IF reply.raises THEN 2 ELSE 1]]

\* One request to a provider: the stripped completion, or the handler's
\* error string when the client raises.
create(name, reply) ==
    [response |-> IF reply.raises THEN LLMErrorMsg(reply.cause) ELSE strip(reply.text),
     calls |-> [NoCalls EXCEPT ![name] = 1]]

\* process_with_llm, had it fallen through to whichever provider has a key.
process_with_llm_any_key(text, provider, reply) ==
    IF openai_api_key THEN create("openai", reply)
    ELSE IF anthropic_api_key THEN create("anthropic", reply)
    ELSE [response |-> NoKeyMsg, calls |-> NoCalls]

\* The text goes into the prompt only (its first 4000 characters); which
\* branch runs depends on the provider name and the keys.
process_with_llm(text, provider, reply) ==
    IF provider = "openai" /\ openai_api_key THEN create("openai", reply)
    ELSE IF provider = "anthropic" /\ anthropic_api_key THEN create("anthropic", reply)
    ELSE [response |-> NoKeyMsg, calls |-> NoCalls]

\* The shortest usable text (line 157) and the longest preview (line 175).
MinTextLength == 50
PreviewLength == 500

\* is_error, had it taken only the bare word for a failure.
is_error_bare_word(text) == text = ErrorWord

\* Lines 154, 163 and 169
is_error(text) == startswith(text, ErrorWord)

\* too_short, had it measured the text without trimming it.
too_short_untrimmed(text) == len(text) < MinTextLength

\* Line 157
too_short(text) == len(strip(text)) < MinTextLength

\* Line 175
preview(text) ==
    IF len(text) > PreviewLength THEN [chars |-> PreviewLength, ellipsis |-> TRUE]
    ELSE [chars |-> len(text), ellipsis |-> FALSE]

Pending == [pending |-> TRUE]
Unset == [type |-> "unset"]

Init ==
    /\ openai_api_key \in BOOLEAN
    /\ anthropic_api_key \in BOOLEAN
    /\ pc = "idle"
    /\ pdf_file = [primary |-> Raises(""), fallback |-> Raises("")]
    /\ llm_provider = ""
    /\ extracted_text = <<>>
    /\ provider_reply = NoReply
    /\ llm_response = <<>>
    /\ transactions = Unset
    /\ result = Pending
    /\ api_calls = NoCalls
    /\ dispatches = 0
    /\ TrackerIdle
    /\ SentimentIdle
    /\ DatabaseEmpty

\* process_pdf_file, step 1 (lines 152-158): a new run starts.
ExtractStep(pdf, provider) ==
    /\ pc \in {"idle", "done"}
    /\ pdf_file' = pdf
    /\ llm_provider' = provider
    /\ extracted_text' = extract_text_from_pdf(pdf)
    /\ provider_reply' = NoReply
    /\ llm_response' = <<>>
    /\ transactions' = Unset
    /\ api_calls' = NoCalls
    /\ dispatches' = 0
    /\ IF is_error(extracted_text')
       THEN pc' = "done" /\ result' = [error |-> extracted_text']
       ELSE IF too_short(extracted_text')
       THEN pc' = "done" /\ result' = [error |-> EmptyPdfMsg]
       ELSE pc' = "llm" /\ result' = Pending
    /\ UNCHANGED <<openai_api_key, anthropic_api_key, tracker_vars,
                   sentiment_vars, db_vars>>

\* The provider answers only when it is called.
HasCredential(provider) ==
    \/ provider = "openai" /\ openai_api_key
    \/ provider = "anthropic" /\ anthropic_api_key

\* process_pdf_file, step 2 (lines 161-164)
DispatchStep ==
    /\ pc = "llm"
    /\ \E reply \in (IF HasCredential(llm_provider) THEN Replies ELSE {NoReply}) :
          LET r == process_with_llm(extracted_text, llm_provider, reply)
          IN  /\ llm_response' = r.response
              /\ api_calls' = r.calls
              /\ provider_reply' = reply
              /\ IF is_error(r.response)
                 THEN pc' = "done" /\ result' = [error |-> r.response]
                 ELSE pc' = "parse" /\ result' = Pending
    /\ dispatches' = dispatches + 1
    /\ UNCHANGED <<openai_api_key, anthropic_api_key, pdf_file, llm_provider,
                   extracted_text, transactions, tracker_vars,
                   sentiment_vars, db_vars>>

\* What line 173 puts in the result and line 176 measures: the value that
\* parse_llm_response returned, a list or a string.
returned(value) == IF value.type = "str" THEN value.chars ELSE value.items

\* process_pdf_file, step 3 and the return (lines 167-177)
ParseStep ==
    /\ pc = "parse"
    /\ transactions' = parse_llm_response(llm_response)
    /\ IF transactions'.type = "str" /\ is_error(transactions'.chars)
       THEN result' = [error |-> transactions'.chars]
       ELSE result' = [success |-> TRUE,
                       transactions |-> returned(transactions'),
                       extracted_text_preview |-> preview(extracted_text),
                       transaction_count |-> Len(returned(transactions'))]
    /\ pc' = "done"
    /\ UNCHANGED <<openai_api_key, anthropic_api_key, pdf_file, llm_provider,
                   extracted_text, provider_reply, llm_response, api_calls,
                   dispatches, tracker_vars, sentiment_vars, db_vars>>

Next ==
    \/ \E pdf \in Pdfs, provider \in Providers : ExtractStep(pdf, provider)
    \/ DispatchStep
    \/ ParseStep

Spec == Init /\ [][Next]_all_vars

----------------------------------------------------------------------------
(* show_pdf_upload: saving a result (src/app_py.py lines 187-226) *)

\* `result['transactions']`; on a result without that key the lookup raises
\* KeyError and nothing is inserted.
result_transactions(run_result) ==
    IF "transactions" \in DOMAIN run_result THEN run_result.transactions
    ELSE <<>>

\* The Save button is drawn: the call has returned, the result has no
\* `error` key and its transactions are not empty (lines 189-209).
save_offered_on_any_result(position, run_result) ==
    position = "done"

save_offered(position, run_result) ==
    /\ position = "done"
    /\ "error" \notin DOMAIN run_result
    /\ result_transactions(run_result) # <<>>

\* FinanceDatabase.insert_transaction for every row shown (lines 211-221);
\* the rows are saved as extracted, the user's edits in the table editor
\* are not modelled.
insert_transactions(table, rows, source_file) ==
    table \o [i \in DOMAIN rows |->
                 [date |-> rows[i].date, amount |-> rows[i].amount,
                  category |-> rows[i].category, type |-> rows[i].type,
                  description |-> rows[i].description,
                  source_file |-> source_file]]

UploadedFileName == "statement.pdf"

\* The Save button is pressed.
SaveToDatabase ==
    /\ save_offered(pc, result)
    /\ stored_transactions' =
           insert_transactions(stored_transactions,
                               result_transactions(result), UploadedFileName)
    /\ pc' = "saved"
    /\ UNCHANGED <<openai_api_key, anthropic_api_key, pdf_file, llm_provider,
                   extracted_text, provider_reply, llm_response, transactions,
                   result, api_calls, dispatches, goals, goal_updates,
                   tracker_vars, sentiment_vars>>

UploadNext ==
    \/ \E pdf \in Pdfs, provider \in Providers : ExtractStep(pdf, provider)
    \/ DispatchStep
    \/ ParseStep
    \/ SaveToDatabase

SpecUpload == Init /\ [][UploadNext]_all_vars

----------------------------------------------------------------------------
(* Vocabulary of the properties *)

IsError == "error" \in DOMAIN result
IsSuccess == "success" \in DOMAIN result
TotalCalls == api_calls.openai + api_calls.anthropic

\* Both extraction methods raised on the file of the current run.
ExtractionFailed == pdf_file.primary.raises /\ pdf_file.fallback.raises

\* The provider was called in this run and returned a completion.
GotCompletion == provider_reply.made /\ ~provider_reply.raises

\* The run ended and its completion was a JSON array, fenced or bare.
ParsedArray == pc = "done" /\ GotCompletion /\ provider_reply.shape = "array"

\* The elements of that array, in order.
Elements == [i \in 1..Len(provider_reply.elems) |-> ElementTable[provider_reply.elems[i]]]

HasNumericAmount(e) ==
    \/ e.amount.t = "number"
    \/ e.amount.t = "string" /\ e.amount.s \in DOMAIN NumericStrings

AmountValue(e) ==
    IF e.amount.t = "number" THEN e.amount.n ELSE NumericStrings[e.amount.s]

HasValidDate(e) == e.date.t = "string" /\ e.date.s \in ParsableDates

\* An object with a date that parses and an amount that is a number.
DatedAmount(e) ==
    /\ e.t = "object"
    /\ {"date", "amount"} \subseteq e.keys
    /\ HasValidDate(e)
    /\ HasNumericAmount(e)

\* An element that passes validation as the specification words it.
PassesValidation(e) == DatedAmount(e) /\ {"category", "type"} \subseteq e.keys

\* The record of an element, its amount coerced and nothing else changed.
Unchanged(e) ==
    [date |-> e.date, amount |-> JFloat(AmountValue(e)), category |-> e.category,
     type |-> e.type, description |-> e.description]

RECURSIVE Flatten(_)
Flatten(ss) == IF ss = <<>> THEN <<>> ELSE Head(ss) \o Flatten(Tail(ss))

Categories ==
    {"groceries", "dining", "gas", "utilities", "rent", "salary", "freelance",
     "investment", "entertainment", "healthcare", "shopping", "other"}

----------------------------------------------------------------------------
(* Properties *)

\* C1: when both extraction methods fail, or the trimmed text has fewer than
\* 50 characters, the run has ended in an error and neither process_with_llm
\* nor a provider was invoked in it.
C1_ShortCircuitBeforeDispatch ==
    (pc # "idle" /\ (ExtractionFailed \/ len(strip(extracted_text)) < 50))
        => (pc = "done" /\ IsError /\ dispatches = 0 /\ TotalCalls = 0)

C1_Witness ==
    /\ pc = "done"
    /\ ~ExtractionFailed
    /\ len(strip(extracted_text)) = 49
    /\ len(extracted_text) = 50
    /\ result = [error |-> EmptyPdfMsg]
    /\ dispatches = 0

\* C2: when process_with_llm runs for a provider that has no credential, the
\* run ends with the no-key error and no provider is called, the other one
\* included even if it has a credential.
C2_NoCredentialNoCall ==
    (pc # "idle" /\ ~HasCredential(llm_provider))
        => /\ TotalCalls = 0
           /\ dispatches > 0 => (pc = "done" /\ result = [error |-> NoKeyMsg])

C2_Witness ==
    /\ pc = "done"
    /\ llm_provider = "openai"
    /\ ~openai_api_key
    /\ anthropic_api_key
    /\ dispatches = 1
    /\ result = [error |-> NoKeyMsg]
    /\ TotalCalls = 0

\* C3: a run calls a provider at most once; when the call raises, the run
\* has ended with the provider error carrying the cause, after that single
\* call, and holds no transactions.
C3_SingleCallNoRetry ==
    /\ TotalCalls <= 1
    /\ dispatches <= 1
    /\ (provider_reply.made /\ provider_reply.raises)
          => /\ pc = "done"
             /\ result = [error |-> LLMErrorMsg(provider_reply.cause)]
             /\ TotalCalls = 1
             /\ transactions = Unset

C3_Witness ==
    /\ pc = "done"
    /\ provider_reply.made
    /\ provider_reply.raises
    /\ api_calls = [openai |-> 0, anthropic |-> 1]
    /\ result = [error |-> LLMErrorMsg("APIConnectionError")]

\* C4: when the completion, its fence stripped, is not parseable as JSON, the
\* run ends with the JSON-parse error and with no success, transactions or
\* count.
C4_UnparseableIsMalformed ==
    (pc = "done" /\ GotCompletion
        /\ ~json_loads(strip_fence(provider_reply.text)).ok)
        => /\ result = [error |-> JSONErrorMsg]
           /\ ~IsSuccess
           /\ DOMAIN result = {"error"}

\* C5: of an array of N elements of which K fail validation, the run returns
\* the other N-K as records in their order, and a count of N-K.
C5_DropInvalidKeepOrder ==
    ParsedArray =>
        LET kept == SelectSeq(Elements, PassesValidation)
        IN  /\ IsSuccess
            /\ result.transactions = [i \in 1..Len(kept) |-> validated_record(kept[i])]
            /\ result.transaction_count = Len(kept)

\* C6: the elements of an array are validated independently: the batch is
\* never an error, and holds for each element what that element yields as
\* the only element of an array, nothing when that is an error.
C6_ElementsIndependent ==
    ParsedArray =>
        LET alone(i) == parse_llm_response(ArrayText(<<provider_reply.elems[i]>>))
            part(i) == IF alone(i).type = "list" THEN alone(i).items ELSE <<>>
        IN  /\ transactions.type = "list"
            /\ IsSuccess
            /\ transactions.items =
                  Flatten([i \in 1..Len(provider_reply.elems) |-> part(i)])

\* C7: an element with a valid date, a numeric amount and all five keys comes
\* back with its date, category, type and description unchanged and its
\* amount coerced to a float of the same sign and value: alone, as the whole
\* batch, and in any batch that is returned.
C7_RoundTrip ==
    ParsedArray =>
        LET whole(e) == PassesValidation(e) /\ "description" \in e.keys
        IN  /\ (\A i \in 1..Len(Elements) : whole(Elements[i]))
                  => /\ transactions.type = "list"
                     /\ transactions.items =
                           [i \in 1..Len(Elements) |-> Unchanged(Elements[i])]
            /\ transactions.type = "list"
                  => \A i \in 1..Len(Elements) :
                        whole(Elements[i])
                           => \E j \in 1..Len(transactions.items) :
                                 transactions.items[j] = Unchanged(Elements[i])

C7_Witness ==
    /\ ParsedArray
    /\ provider_reply.elems = <<"coinbase", "payroll">>
    /\ IsSuccess
    /\ result.transactions[1].amount = JFloat(1250)
    /\ result.transactions[1].type = JStr("expense")
    /\ result.transactions[2].amount = JFloat(300000)
    /\ result.transactions[2].description = JStr("Payroll")

\* C8: a JSON array inside a triple-backquote fence, with the json tag or
\* none, with or without whitespace around it, parses to what the array
\* parses to unwrapped.
C8_FencedParsesAsBare ==
    (ParsedArray /\ provider_reply.wrap # "none")
        => transactions = parse_llm_response(ArrayText(provider_reply.elems))

C8_Witness ==
    /\ ParsedArray
    /\ provider_reply.wrap = "plain"
    /\ provider_reply.elems = <<"walmart", "payroll">>
    /\ transactions.type = "list"
    /\ Len(transactions.items) = 2

\* C9: every record a run returns has a category of the enumerated set.
C9_CategoryEnumerated ==
    IsSuccess =>
        \A i \in 1..Len(result.transactions) :
            /\ result.transactions[i].category.t = "string"
            /\ result.transactions[i].category.s \in Categories

\* C10: an element with a valid date and a numeric amount is kept whichever
\* of type, category and description it lacks, with type expense, category
\* other and description '' in their place.
C10_DefaultsForAbsentKeys ==
    (ParsedArray /\ \A i \in 1..Len(Elements) : DatedAmount(Elements[i]))
        => LET default(e, key, d) == IF key \in e.keys THEN e[key] ELSE JStr(d)
               defaulted(e) ==
                   [date |-> e.date, amount |-> JFloat(AmountValue(e)),
                    category |-> default(e, "category", "other"),
                    type |-> default(e, "type", "expense"),
                    description |-> default(e, "description", "")]
           IN  /\ transactions.type = "list"
               /\ transactions.items =
                     [i \in 1..Len(Elements) |-> defaulted(Elements[i])]

\* C10 as amended: of the elements with a valid date and a numeric amount,
\* those lacking the type key or the category key are dropped, and the others
\* are kept, with description '' when they lack the description key.
C10_RequiredKeysNoDefault ==
    (ParsedArray /\ \A i \in 1..Len(Elements) : DatedAmount(Elements[i]))
        => LET kept == SelectSeq(Elements, PassesValidation)
               described(e) ==
                   IF "description" \in e.keys THEN Unchanged(e)
                   ELSE [Unchanged(e) EXCEPT !.description = JStr("")]
           IN  /\ transactions.type = "list"
               /\ transactions.items = [i \in 1..Len(kept) |-> described(kept[i])]

C10_Witness ==
    /\ ParsedArray
    /\ provider_reply.elems = <<"notype", "nodesc">>
    /\ IsSuccess
    /\ result.transaction_count = 1
    /\ result.transactions[1].description = JStr("")
    /\ result.transactions[1].date = JStr("2024-1-5")

\* The stage an error message names, read as a caller reads it.
ReportedStage(msg) ==
    LET head == IF Len(msg) >= 7 THEN SubSeq(msg, 1, 7) ELSE msg
    IN  CASE msg = EmptyPdfMsg -> "extraction"
          [] head = ErrorWord \o <<" ", "extracting text: ">> -> "extraction"
          [] msg = NoKeyMsg -> "credential"
          [] head = ErrorWord \o <<" ", "processing with LLM: ">> -> "provider"
          [] head = ErrorWord \o <<" ", "parsing JSON response: ">> -> "parse"
          [] head = ErrorWord \o <<" ", "validating transactions: ">> -> "parse"
          [] OTHER -> "unknown"

\* The text of the current run is usable: extraction succeeded with 50 or
\* more characters.
UsableText == ~ExtractionFailed /\ len(strip(extracted_text)) >= 50

\* The stage at which the inputs of the current run make it fail.
FailedStage ==
    IF ~UsableText THEN "extraction"
    ELSE IF ~HasCredential(llm_provider) THEN "credential"
    ELSE IF provider_reply.raises THEN "provider"
    ELSE "parse"

\* C11: the error of a failed run names the stage at which the run ended, and
\* a run with usable text and a completion is never reported as an extraction
\* or provider failure: it goes on to the parser, whatever the text and the
\* completion begin with.
C11_ErrorNamesItsStage ==
    (pc = "done" /\ IsError)
        => /\ ReportedStage(result.error) = FailedStage
           /\ (UsableText /\ GotCompletion) => transactions # Unset

\* C12: when pdfplumber raises or yields no text, PyPDF2 is tried and its text
\* is the result; the failure string is returned exactly when neither method
\* gives text.
C12_FallbackChain ==
    pc # "idle" =>
        LET primary_fails ==
                pdf_file.primary.raises \/ strip(pdf_file.primary.text) = <<>>
        IN  /\ ~primary_fails => extracted_text = pdf_file.primary.text
            /\ (primary_fails /\ ~pdf_file.fallback.raises)
                  => extracted_text = pdf_file.fallback.text
            /\ (primary_fails /\ pdf_file.fallback.raises)
                  => extracted_text = ExtractErrorMsg(pdf_file.fallback.cause)

----------------------------------------------------------------------------
(* AIStockTracker: quotes and lots (src/stock_tracker_py.py)               *)
(*                                                                         *)
(* Money is kept in fixed point.  Shares are counted in hundredths of a    *)
(* share and prices in cents, the steps of the portfolio form; a product   *)
(* shares * price is therefore in 1/10000 of a dollar, and a figure that   *)
(* the code rounds to two decimals is in cents.  A percentage rounded to   *)
(* two decimals is in 1/100 of a percent, one rounded to one decimal in    *)
(* 1/10 of a percent.                                                      *)

\* Longest lot list valued in the model.
MaxLots == 3

\* Longest holdings list handed to calculate_portfolio_metrics on its own.
MaxHoldings == 4

None == [type |-> "NoneType"]

\* round(): q + r / d with 0 <= r < d, to the nearest integer, a tie to the
\* even neighbour.
nearest(q, r, d) ==
    IF 2 * r < d THEN q
    ELSE IF 2 * r > d THEN q + 1
    ELSE IF q % 2 = 0 THEN q ELSE q + 1

\* round(n / d) for d > 0
RoundDiv(n, d) == nearest(n \div d, n % d, d)

\* round((n / d) * 100, 2) for d > 0, in 1/100 of a percent: n * 10000 / d
\* by long division, two decimal digits at a time.
percent_of(n, d) ==
    LET r0 == n % d
        r1 == (r0 * 100) % d
        r2 == (r1 * 100) % d
    IN  nearest((n \div d) * 10000 + ((r0 * 100) \div d) * 100
                    + (r1 * 100) \div d,
                r2, d)

\* round(x, 2) of an amount held in 1/10000 of a dollar, in cents.
round2(x) == RoundDiv(x, 100)

\* The last close of the quote history and the previousClose of the ticker
\* info, in 1/10000 of a dollar; previousClose 0 stands for a ticker info
\* without that key.
Closes == {<<4012, 4114>>, <<399951, 392109>>, <<408049, 0>>}

\* What the market data library does for one symbol in one call.
MarketAnswers ==
    {[raises |-> TRUE, empty |-> FALSE, close |-> 0, previousClose |-> 0],
     [raises |-> FALSE, empty |-> TRUE, close |-> 0, previousClose |-> 0]}
    \cup {[raises |-> FALSE, empty |-> FALSE, close |-> c[1],
           previousClose |-> c[2]] : c \in Closes}

\* Prices are in cents, change_percent in 1/100 of a percent.
get_stock_price(symbol, answer) ==
    IF answer.raises \/ answer.empty THEN None
    ELSE LET current_price == answer.close
             previous_close == IF answer.previousClose = 0 THEN current_price
                               ELSE answer.previousClose
         IN  [type |-> "dict",
              symbol |-> symbol,
              company_name |-> symbol,
              current_price |-> round2(current_price),
              previous_close |-> round2(previous_close),
              change |-> round2(current_price - previous_close),
              change_percent |->
                  percent_of(current_price - previous_close, previous_close)]

Lot(symbol, shares, purchase_price) ==
    [symbol |-> symbol, shares |-> shares, purchase_price |-> purchase_price,
     purchase_date |-> "2024-01-15"]

\* The rows a portfolio is made of: a whole share bought above every quote,
\* 2.5 shares, a hundredth of a share of a symbol without a sector, a share
\* acquired at no cost, and a third of a share.
Lots ==
    {Lot("NVDA", 100, 10000), Lot("MSFT", 250, 4000), Lot("SHOP", 1, 40),
     Lot("AMD", 100, 0), Lot("PLTR", 33, 1002)}

Portfolios == UNION {[1..n -> Lots] : n \in 0..MaxLots}

----------------------------------------------------------------------------
(* AIStockTracker.get_portfolio_value *)

\* sorted(): the key order that puts a strictly before b
precedes(a, b, key, reverse) ==
    IF reverse THEN a[key] > b[key] ELSE a[key] < b[key]

RECURSIVE insert(_, _, _, _)
insert(x, list, key, reverse) ==
    IF list = <<>> THEN <<x>>
    ELSE IF precedes(x, Head(list), key, reverse) THEN <<x>> \o list
    ELSE <<Head(list)>> \o insert(x, Tail(list), key, reverse)

\* sorted(list, key=..., reverse=...): stable in both directions
RECURSIVE sorted(_, _, _)
sorted(list, key, reverse) ==
    IF list = <<>> THEN <<>>
    ELSE insert(list[Len(list)],
                sorted(SubSeq(list, 1, Len(list) - 1), key, reverse),
                key, reverse)

\* `if stock_info:` (line 73)
resolved(stock_info) == stock_info.type = "dict"

lot_cost(row) == row.shares * row.purchase_price

lot_value(row, stock_info) == row.shares * stock_info.current_price

\* (gain / cost) * 100 behind its guard, rounded to two decimals
gain_percent_rounded_guard(gain_loss, cost) ==
    IF round2(cost) > 0 THEN percent_of(gain_loss, cost) ELSE 0

gain_percent(gain_loss, cost) ==
    IF cost > 0 THEN percent_of(gain_loss, cost) ELSE 0

\* the dict appended for one resolved row (lines 74-94)
holding_of(row, stock_info) ==
    LET cost == lot_cost(row)
        value == lot_value(row, stock_info)
        gain_loss == value - cost
    IN  [symbol |-> row.symbol,
         company_name |-> stock_info.company_name,
         shares |-> row.shares,
         purchase_price |-> row.purchase_price,
         current_price |-> stock_info.current_price,
         cost_basis |-> round2(cost),
         current_value |-> round2(value),
         gain_loss |-> round2(gain_loss),
         gain_loss_percent |-> gain_percent(gain_loss, cost),
         purchase_date |-> row.purchase_date]

\* what one row adds to the holdings list
row_holdings_zero_for_unresolved(row, stock_info) ==
    IF resolved(stock_info) THEN <<holding_of(row, stock_info)>>
    ELSE <<[symbol |-> row.symbol, company_name |-> row.symbol,
            shares |-> row.shares, purchase_price |-> row.purchase_price,
            current_price |-> 0, cost_basis |-> round2(lot_cost(row)),
            current_value |-> 0, gain_loss |-> -round2(lot_cost(row)),
            gain_loss_percent |-> IF lot_cost(row) > 0 THEN -10000 ELSE 0,
            purchase_date |-> row.purchase_date]>>

row_holdings(row, stock_info) ==
    IF resolved(stock_info) THEN <<holding_of(row, stock_info)>> ELSE <<>>

\* `total_value += value`, `total_cost += cost` (lines 96-97)
accumulate_rounded(total, amount) == total + 100 * round2(amount)

accumulate(total, amount) == total + amount

\* the early return for an empty DataFrame (lines 57-64)
empty_portfolio_value_without_holdings ==
    [total_value |-> 0, total_cost |-> 0, total_gain_loss |-> 0,
     total_gain_loss_percent |-> 0]

empty_portfolio_value ==
    [total_value |-> 0, total_cost |-> 0, total_gain_loss |-> 0,
     total_gain_loss_percent |-> 0, holdings |-> <<>>]

\* `sorted(holdings, key=lambda x: x['current_value'], reverse=True)`
by_current_value_ascending(list) == sorted(list, "current_value", FALSE)

by_current_value(list) == sorted(list, "current_value", TRUE)

\* the totals and the return (lines 99-108)
portfolio_value(list, value, cost) ==
    [total_value |-> round2(value),
     total_cost |-> round2(cost),
     total_gain_loss |-> round2(value - cost),
     total_gain_loss_percent |-> gain_percent(value - cost, cost),
     holdings |-> by_current_value(list)]

\* The loop of lines 70-97 over rows and the quotes they got, from the
\* holdings and totals collected so far.
RECURSIVE value_rows(_, _, _, _, _)
value_rows(df, infos, list, value, cost) ==
    IF df = <<>> THEN portfolio_value(list, value, cost)
    ELSE LET row == Head(df)
             stock_info == Head(infos)
         IN  IF resolved(stock_info)
             THEN value_rows(Tail(df), Tail(infos),
                             list \o row_holdings(row, stock_info),
                             accumulate(value, lot_value(row, stock_info)),
                             accumulate(cost, lot_cost(row)))
             ELSE value_rows(Tail(df), Tail(infos),
                             list \o row_holdings(row, stock_info), value, cost)

\* get_portfolio_value as a function of the rows and of the quotes that the
\* calls of line 71 return, row by row (lines 55-108)
get_portfolio_value(df, infos) ==
    IF df = <<>> THEN empty_portfolio_value
    ELSE value_rows(df, infos, <<>>, 0, 0)

----------------------------------------------------------------------------
(* AIStockTracker.calculate_portfolio_metrics *)

\* `[:3]`
TopCount == 3

sector_map ==
    [s \in {"NVDA", "AMD", "INTC"} |-> "Semiconductors"]
    @@ [s \in {"GOOGL", "MSFT", "META", "CRM"} |-> "Software"]
    @@ [s \in {"AMZN"} |-> "Cloud/E-commerce"]
    @@ [s \in {"ORCL"} |-> "Database"]
    @@ [s \in {"IBM"} |-> "Enterprise"]
    @@ [s \in {"TSLA"} |-> "Automotive/Energy"]
    @@ [s \in {"PLTR"} |-> "Analytics"]
    @@ [s \in {"NET"} |-> "Infrastructure"]
    @@ [s \in {"SNOW"} |-> "Data"]
    @@ [s \in {"AAPL"} |-> "Consumer Tech"]

\* sector_map.get(symbol, 'Other')
sector_of(symbol) ==
    IF symbol \in DOMAIN sector_map THEN sector_map[symbol] ELSE "Other"

\* sum(holding['current_value'] for holding in holdings), in cents
RECURSIVE sum_current_value(_)
sum_current_value(list) ==
    IF list = <<>> THEN 0
    ELSE Head(list).current_value + sum_current_value(Tail(list))

\* the `sectors` dict built by the loop of lines 158-163
sectors(list) ==
    [s \in {sector_of(list[i].symbol) : i \in DOMAIN list} |->
        sum_current_value(SelectSeq(list, LAMBDA h : sector_of(h.symbol) = s))]

\* round((value / total_value) * 100, 1), in tenths of a percent
allocation_floor(value, total) == (value * 1000) \div total

allocation(value, total) == RoundDiv(value * 1000, total)

\* The figures of a holdings list are Python floats or numpy.float64 values,
\* depending on how the rows of the DataFrame were read: 0.0 / 0.0 raises
\* ZeroDivisionError on the first and is nan on the second.
NumberTypes == {"float", "numpy.float64"}

NaN == "nan"

EmptyDict == [k \in {} |-> 0]

head(list, n) == SubSeq(list, 1, IF Len(list) < n THEN Len(list) ELSE n)

calculate_portfolio_metrics(list, ntype) ==
    IF list = <<>> THEN EmptyDict
    ELSE LET total == sum_current_value(list)
             by_sector == sectors(list)
         IN  IF total = 0 /\ ntype = "float"
             THEN [raised |-> "ZeroDivisionError"]
             ELSE [sector_allocation |->
                       [s \in DOMAIN by_sector |->
                           IF total = 0 THEN NaN
                           ELSE allocation(by_sector[s], total)],
                   top_performers |->
                       head(sorted(list, "gain_loss_percent", TRUE), TopCount),
                   worst_performers |->
                       head(sorted(list, "gain_loss_percent", FALSE), TopCount),
                   total_positions |-> Len(list)]

\* Holdings lists handed to calculate_portfolio_metrics on its own: each is a
\* lot valued at a quote, as get_portfolio_value builds it.
ValuedLots ==
    {<<Lot("NVDA", 100, 10000), 399951>>, <<Lot("AMD", 100, 0), 399951>>,
     <<Lot("MSFT", 250, 4000), 408049>>, <<Lot("SHOP", 1, 40), 4012>>,
     <<Lot("SHOP", 1, 40), 408049>>, <<Lot("PLTR", 33, 1002), 408049>>}

HoldingTable ==
    {holding_of(p[1], get_stock_price(p[1].symbol,
                    [raises |-> FALSE, empty |-> FALSE, close |-> p[2],
                     previousClose |-> 0])) :
        p \in ValuedLots}

HoldingLists == UNION {[1..n -> HoldingTable] : n \in 0..MaxHoldings}

----------------------------------------------------------------------------
(* The valuation state machine *)

\* get_portfolio_value is entered (lines 55-68)
enter_get_portfolio_value(df) ==
    /\ portfolio_df' = df
    /\ row_index' = 1
    /\ stock_infos' = <<>>
    /\ quote_requests' = <<>>
    /\ holdings' = <<>>
    /\ total_value' = 0
    /\ total_cost' = 0
    /\ valuation_calls' = valuation_calls + 1
    /\ previous_data' = portfolio_data
    /\ IF df = <<>>
       THEN tracker_pc' = "valued" /\ portfolio_data' = empty_portfolio_value
       ELSE tracker_pc' = "rows" /\ portfolio_data' = [pending |-> TRUE]
    /\ UNCHANGED <<metrics_input, number_type, metrics, vars, sentiment_vars,
                   db_vars>>

\* the first valuation request
GetPortfolioValue(df) ==
    /\ tracker_pc = "idle"
    /\ enter_get_portfolio_value(df)

\* the second valuation request, for the same lots
Revalue ==
    /\ tracker_pc = "valued"
    /\ valuation_calls = 1
    /\ enter_get_portfolio_value(portfolio_df)

\* `row['symbol']`: the symbol the loop asks a quote for (line 71)
requested_symbol_of_first_row(df, index) == df[1].symbol

requested_symbol(df, index) == df[index].symbol

\* the loop calls get_stock_price for the row it is at (lines 70-71)
RequestQuote ==
    /\ tracker_pc = "rows"
    /\ quote_requests' =
           Append(quote_requests, requested_symbol(portfolio_df, row_index))
    /\ tracker_pc' = "fetching"
    /\ UNCHANGED <<portfolio_df, row_index, stock_infos, holdings, total_value,
                   total_cost, portfolio_data, metrics_input, number_type,
                   metrics, valuation_calls, previous_data, vars,
                   sentiment_vars, db_vars>>

\* get_stock_price returns and the iteration completes (lines 71-97); after
\* the last row, the totals and the return (lines 99-108)
ValueRow ==
    /\ tracker_pc = "fetching"
    /\ \E answer \in MarketAnswers :
          LET row == portfolio_df[row_index]
              stock_info == get_stock_price(quote_requests[row_index], answer)
              list == holdings \o row_holdings(row, stock_info)
              value == IF resolved(stock_info)
                       THEN accumulate(total_value, lot_value(row, stock_info))
                       ELSE total_value
              cost == IF resolved(stock_info)
                      THEN accumulate(total_cost, lot_cost(row))
                      ELSE total_cost
          IN  /\ stock_infos' = Append(stock_infos, stock_info)
              /\ holdings' = list
              /\ total_value' = value
              /\ total_cost' = cost
              /\ IF row_index = Len(portfolio_df)
                 THEN /\ tracker_pc' = "valued"
                      /\ row_index' = row_index
                      /\ portfolio_data' = portfolio_value(list, value, cost)
                 ELSE /\ tracker_pc' = "rows"
                      /\ row_index' = row_index + 1
                      /\ portfolio_data' = portfolio_data
    /\ UNCHANGED <<portfolio_df, metrics_input, number_type, metrics,
                   quote_requests, valuation_calls, previous_data, vars,
                   sentiment_vars, db_vars>>

\* show_dashboard, the portfolio section (src/app_py.py lines 137-144)
ShowDashboard ==
    /\ tracker_pc = "valued"
    /\ portfolio_data.total_value > 0
    /\ \E ntype \in NumberTypes :
          /\ metrics_input' = portfolio_data.holdings
          /\ number_type' = ntype
          /\ metrics' = calculate_portfolio_metrics(portfolio_data.holdings, ntype)
    /\ tracker_pc' = "shown"
    /\ UNCHANGED <<portfolio_df, row_index, stock_infos, holdings, total_value,
                   total_cost, portfolio_data, quote_requests, valuation_calls,
                   previous_data, vars, sentiment_vars, db_vars>>

\* calculate_portfolio_metrics called on a holdings list of its own
CalculateMetrics(list, ntype) ==
    /\ tracker_pc = "idle"
    /\ metrics_input' = list
    /\ number_type' = ntype
    /\ metrics' = calculate_portfolio_metrics(list, ntype)
    /\ tracker_pc' = "metrics"
    /\ UNCHANGED <<portfolio_df, row_index, stock_infos, holdings, total_value,
                   total_cost, portfolio_data, quote_requests, valuation_calls,
                   previous_data, vars, sentiment_vars, db_vars>>

\* The tracker takes no credential: the pipeline stays unconfigured and idle.
TrackerInit == Init /\ ~openai_api_key /\ ~anthropic_api_key

PortfolioNext ==
    \/ \E df \in Portfolios : GetPortfolioValue(df)
    \/ RequestQuote
    \/ ValueRow
    \/ ShowDashboard

SpecPortfolio == TrackerInit /\ [][PortfolioNext]_all_vars

MetricsNext ==
    \E list \in HoldingLists, ntype \in NumberTypes : CalculateMetrics(list, ntype)

SpecMetrics == TrackerInit /\ [][MetricsNext]_all_vars

\* Longest lot list that is valued twice in the model.
MaxRevaluedLots == 2

RevaluedPortfolios ==
    UNION {[1..n -> {Lot("NVDA", 100, 10000), Lot("MSFT", 250, 4000)}] :
               n \in 0..MaxRevaluedLots}

\* Two successive valuations of the same lots.
RevaluationNext ==
    \/ \E df \in RevaluedPortfolios : GetPortfolioValue(df)
    \/ RequestQuote
    \/ ValueRow
    \/ Revalue

SpecRevaluation == TrackerInit /\ [][RevaluationNext]_all_vars

----------------------------------------------------------------------------
(* AIStockTracker.get_market_sentiment *)

major_ai_stocks == <<"NVDA", "GOOGL", "MSFT", "AMZN">>

\* `if stock_info and stock_info['change_percent']` (line 191)
counted(stock_info) == resolved(stock_info) /\ stock_info.change_percent # 0

\* the divisor of avg_change and positive_ratio (lines 196-197)
resolved_or_one(infos) ==
    IF \E i \in DOMAIN infos : resolved(infos[i])
    THEN Cardinality({i \in DOMAIN infos : resolved(infos[i])}) ELSE 1

basket_size(infos) == Len(major_ai_stocks)

\* the label of lines 199-208, decided on the unrounded average total / n;
\* total is in 1/100 of a percent
sentiment_label(total, n) ==
    IF total > 200 * n THEN "Very Bullish"
    ELSE IF total > 50 * n THEN "Bullish"
    ELSE IF total > -50 * n THEN "Neutral"
    ELSE IF total > -200 * n THEN "Bearish"
    ELSE "Very Bearish"

\* the dict returned (lines 196-215): avg_change in 1/100 of a percent,
\* positive_ratio in 1/10 of a percent
sentiment_of(infos, total, positive) ==
    LET n == basket_size(infos)
    IN  [sentiment |-> sentiment_label(total, n),
         avg_change |-> RoundDiv(total, n),
         positive_ratio |-> RoundDiv(positive * 1000, n)]

\* get_market_sentiment is entered (lines 185-187)
GetMarketSentiment ==
    /\ sentiment_pc = "idle"
    /\ sentiment_pc' = "symbols"
    /\ basket_index' = 1
    /\ basket_infos' = <<>>
    /\ total_change' = 0
    /\ positive_count' = 0
    /\ market_sentiment' = [pending |-> TRUE]
    /\ UNCHANGED <<vars, tracker_vars, db_vars>>

\* one iteration of the loop (lines 189-194) and, after the last symbol, the
\* average, the label and the return (lines 196-215)
SentimentRow ==
    /\ sentiment_pc = "symbols"
    /\ \E answer \in MarketAnswers :
          LET stock_info ==
                  get_stock_price(major_ai_stocks[basket_index], answer)
              infos == Append(basket_infos, stock_info)
              total == IF counted(stock_info)
                       THEN total_change + stock_info.change_percent
                       ELSE total_change
              positive == IF counted(stock_info) /\ stock_info.change_percent > 0
                          THEN positive_count + 1 ELSE positive_count
          IN  /\ basket_infos' = infos
              /\ total_change' = total
              /\ positive_count' = positive
              /\ IF basket_index = Len(major_ai_stocks)
                 THEN /\ sentiment_pc' = "done"
                      /\ basket_index' = basket_index
                      /\ market_sentiment' = sentiment_of(infos, total, positive)
                 ELSE /\ sentiment_pc' = "symbols"
                      /\ basket_index' = basket_index + 1
                      /\ market_sentiment' = market_sentiment
    /\ UNCHANGED <<vars, tracker_vars, db_vars>>

SentimentNext == GetMarketSentiment \/ SentimentRow

SpecSentiment == TrackerInit /\ [][SentimentNext]_all_vars

----------------------------------------------------------------------------
(* FinanceDatabase: the goals table (src/database_py.py) *)

\* Most update_goal calls made in the model.
MaxGoalUpdates == 3

\* The choices of the goal form (src/app_py.py lines 306-310).
GoalTypes == {"Monthly Savings", "Emergency Fund", "Custom"}

TargetAmounts == {1, 101}

\* CREATE TABLE goals (lines 46-58): the only column under a uniqueness
\* constraint is the primary key.
goals_unique_columns == {"id"}

\* id INTEGER PRIMARY KEY AUTOINCREMENT, for an INSERT that gives no id
autoincrement(table) ==
    IF table = <<>> THEN 1 ELSE table[Len(table)].id + 1

\* INSERT OR REPLACE: the rows that collide with the new row on a column
\* under a uniqueness constraint are deleted, then the row is inserted.
insert_or_replace(table, row, unique_columns) ==
    SelectSeq(table, LAMBDA r : \A c \in unique_columns : r[c] # row[c])
        \o <<row>>

update_goal(table, goal_type, target_amount, current_amount) ==
    insert_or_replace(table,
                      [id |-> autoincrement(table),
                       goal_type |-> goal_type,
                       target_amount |-> target_amount,
                       current_amount |-> current_amount,
                       achieved |-> FALSE,
                       streak_count |-> 0,
                       points |-> 0],
                      goals_unique_columns)

\* show_goals: the form is submitted (src/app_py.py lines 313-314)
UpdateGoal(goal_type, target_amount) ==
    /\ Len(goal_updates) < MaxGoalUpdates
    /\ goals' = update_goal(goals, goal_type, target_amount, 0)
    /\ goal_updates' = Append(goal_updates, [goal_type |-> goal_type,
                                             target_amount |-> target_amount])
    /\ UNCHANGED <<stored_transactions, vars, tracker_vars, sentiment_vars>>

GoalsNext ==
    \E goal_type \in GoalTypes, target_amount \in TargetAmounts :
        UpdateGoal(goal_type, target_amount)

SpecGoals == TrackerInit /\ [][GoalsNext]_all_vars

----------------------------------------------------------------------------
(* Vocabulary of the valuation properties *)

\* get_portfolio_value has returned.
Valued == tracker_pc \in {"valued", "shown"}

\* The rows whose quote was available in this call.
ResolvedRows == {i \in DOMAIN stock_infos : stock_infos[i] # None}

RECURSIVE Sum(_)
Sum(seq) == IF seq = <<>> THEN 0 ELSE Head(seq) + Sum(Tail(seq))

\* What row i is worth and what it cost, exactly, in 1/10000 of a dollar;
\* nothing when its quote was unavailable.
RowValue(i) ==
    IF i \in ResolvedRows
    THEN portfolio_df[i].shares * stock_infos[i].current_price ELSE 0

RowCost(i) ==
    IF i \in ResolvedRows
    THEN portfolio_df[i].shares * portfolio_df[i].purchase_price ELSE 0

ResolvedValue == Sum([i \in DOMAIN stock_infos |-> RowValue(i)])

ResolvedCost == Sum([i \in DOMAIN stock_infos |-> RowCost(i)])

\* Holding h is the valuation of row i at the quote of this call.
HoldsRow(h, i) ==
    /\ h.symbol = portfolio_df[i].symbol
    /\ h.shares = portfolio_df[i].shares
    /\ h.purchase_price = portfolio_df[i].purchase_price
    /\ h.purchase_date = portfolio_df[i].purchase_date
    /\ h.current_price = stock_infos[i].current_price

SameRow(i, j) ==
    portfolio_df[i] = portfolio_df[j] /\ stock_infos[i] = stock_infos[j]

AllZero ==
    [total_value |-> 0, total_cost |-> 0, total_gain_loss |-> 0,
     total_gain_loss_percent |-> 0, holdings |-> <<>>]

\* The exact cost and value behind a returned holding.
ExactCost(h) == h.shares * h.purchase_price

ExactValue(h) == h.shares * h.current_price

----------------------------------------------------------------------------
(* Properties of get_portfolio_value *)

\* C13: get_portfolio_value returns exactly one holding for each lot whose
\* quote resolved and none for a lot whose quote is unavailable; the
\* unresolved lots add nothing to total_value or total_cost, and the
\* valuation still returns its result.
C13_UnresolvedExcluded ==
    Valued =>
        LET hs == portfolio_data.holdings
        IN  /\ Len(hs) = Cardinality(ResolvedRows)
            /\ \A i \in ResolvedRows :
                  Cardinality({k \in DOMAIN hs : HoldsRow(hs[k], i)})
                      = Cardinality({j \in ResolvedRows : SameRow(i, j)})
            /\ portfolio_data.total_value = round2(ResolvedValue)
            /\ portfolio_data.total_cost = round2(ResolvedCost)

\* Three lots, two quotes resolved and one unavailable: two holdings.
C13_Witness ==
    /\ Valued
    /\ Len(portfolio_df) = 3
    /\ Cardinality(ResolvedRows) = 2
    /\ Len(portfolio_data.holdings) = 2
    /\ portfolio_data.total_value > 0

\* C14: an empty lot list and a lot list in which no quote resolves both
\* return the same result: every total 0 and an empty holdings list.
C14_NothingResolvedAllZero ==
    (Valued /\ (portfolio_df = <<>> \/ ResolvedRows = {}))
        => portfolio_data = AllZero

\* Two lots, no quote available, the all-zero result.
C14_Witness ==
    /\ Valued
    /\ Len(portfolio_df) >= 2
    /\ ResolvedRows = {}
    /\ portfolio_data = AllZero

\* C15 (as stated, each figure read at the two decimals it is reported
\* with): for every returned holding cost_basis = shares * purchase_price,
\* current_value = shares * current_price, gain_loss = current_value -
\* cost_basis, and gain_loss_percent = gain_loss / cost_basis * 100 when
\* cost_basis > 0 and 0 otherwise.
C15_FiguresFollowFromEachOther ==
    Valued =>
        \A k \in DOMAIN portfolio_data.holdings :
            LET h == portfolio_data.holdings[k]
            IN  /\ h.cost_basis = round2(ExactCost(h))
                /\ h.current_value = round2(ExactValue(h))
                /\ h.gain_loss = h.current_value - h.cost_basis
                /\ h.gain_loss_percent =
                       IF h.cost_basis > 0
                       THEN percent_of(h.gain_loss, h.cost_basis) ELSE 0

\* C15 (amended): every figure of a holding is computed from the exact
\* products cost = shares * purchase_price and value = shares *
\* current_price and rounded to two decimals on its own: cost_basis =
\* round(cost), current_value = round(value), gain_loss = round(value -
\* cost), gain_loss_percent = round((value - cost) / cost * 100) when the
\* exact cost is > 0 and 0 otherwise; a lot bought at price 0 has percent 0.
C15_FiguresRoundedSeparately ==
    Valued =>
        \A k \in DOMAIN portfolio_data.holdings :
            LET h == portfolio_data.holdings[k]
                cost == ExactCost(h)
                value == ExactValue(h)
            IN  /\ h.cost_basis = round2(cost)
                /\ h.current_value = round2(value)
                /\ h.gain_loss = round2(value - cost)
                /\ h.gain_loss_percent =
                       IF cost > 0 THEN percent_of(value - cost, cost) ELSE 0
                /\ h.purchase_price = 0 => h.gain_loss_percent = 0

\* A lot bought at price 0 next to a holding whose reported gain is a cent
\* away from the difference of its reported value and cost, and a holding
\* with a reported cost of 0.00 and a percentage that is not 0.
C15_Witness ==
    /\ Valued
    /\ \E k \in DOMAIN portfolio_data.holdings :
          /\ portfolio_data.holdings[k].purchase_price = 0
          /\ portfolio_data.holdings[k].current_value > 0
    /\ \E k \in DOMAIN portfolio_data.holdings :
          LET h == portfolio_data.holdings[k]
          IN  h.gain_loss # h.current_value - h.cost_basis
    /\ \E k \in DOMAIN portfolio_data.holdings :
          LET h == portfolio_data.holdings[k]
          IN  h.cost_basis = 0 /\ h.gain_loss_percent # 0

\* The reported value and cost of the returned holdings, summed, in cents.
ReportedValue ==
    Sum([k \in DOMAIN portfolio_data.holdings |->
            portfolio_data.holdings[k].current_value])

ReportedCost ==
    Sum([k \in DOMAIN portfolio_data.holdings |->
            portfolio_data.holdings[k].cost_basis])

\* The exact value and cost of the returned holdings, summed.
HeldValue ==
    Sum([k \in DOMAIN portfolio_data.holdings |->
            ExactValue(portfolio_data.holdings[k])])

HeldCost ==
    Sum([k \in DOMAIN portfolio_data.holdings |->
            ExactCost(portfolio_data.holdings[k])])

\* C16 (as stated, each figure read at the two decimals it is reported
\* with): total_value and total_cost are the sums of the current_value and
\* cost_basis of the returned holdings, total_gain_loss = total_value -
\* total_cost, and total_gain_loss_percent = total_gain_loss / total_cost *
\* 100 when total_cost > 0 and 0 otherwise.
C16_TotalsAreSumsOfHoldings ==
    Valued =>
        /\ portfolio_data.total_value = ReportedValue
        /\ portfolio_data.total_cost = ReportedCost
        /\ portfolio_data.total_gain_loss
               = portfolio_data.total_value - portfolio_data.total_cost
        /\ portfolio_data.total_gain_loss_percent =
               IF portfolio_data.total_cost > 0
               THEN percent_of(portfolio_data.total_gain_loss,
                               portfolio_data.total_cost)
               ELSE 0

\* C16 (amended): the totals are computed from the exact value and cost of
\* the returned holdings, V and C, and each is rounded to two decimals on its
\* own: total_value = round(V), total_cost = round(C), total_gain_loss =
\* round(V - C), total_gain_loss_percent = round((V - C) / C * 100) when
\* C > 0 and 0 otherwise.
C16_TotalsRoundedSeparately ==
    Valued =>
        /\ portfolio_data.total_value = round2(HeldValue)
        /\ portfolio_data.total_cost = round2(HeldCost)
        /\ portfolio_data.total_gain_loss = round2(HeldValue - HeldCost)
        /\ portfolio_data.total_gain_loss_percent =
               IF HeldCost > 0
               THEN percent_of(HeldValue - HeldCost, HeldCost) ELSE 0

\* Several holdings whose reported values do not add up to total_value.
C16_Witness ==
    /\ Valued
    /\ Len(portfolio_data.holdings) >= 2
    /\ portfolio_data.total_cost > 0
    /\ portfolio_data.total_value # ReportedValue

\* C17: the returned holdings are in non-increasing order of current_value,
\* whatever the order of the lots.
C17_LargestPositionFirst ==
    Valued =>
        \A i, j \in DOMAIN portfolio_data.holdings :
            i < j => portfolio_data.holdings[i].current_value
                        >= portfolio_data.holdings[j].current_value

\* Lots given smallest position first come back largest first.
C17_Witness ==
    /\ Valued
    /\ Len(holdings) = 3
    /\ holdings[1].current_value < holdings[2].current_value
    /\ holdings[2].current_value < holdings[3].current_value
    /\ portfolio_data.holdings = <<holdings[3], holdings[2], holdings[1]>>

----------------------------------------------------------------------------
(* Properties of calculate_portfolio_metrics *)

\* calculate_portfolio_metrics has returned or raised.
MetricsReturned == tracker_pc \in {"shown", "metrics"}

\* The current values of the holdings it was given, summed, in cents.
InputValue ==
    Sum([k \in DOMAIN metrics_input |-> metrics_input[k].current_value])

\* The summed current value of the given holdings that satisfy a condition.
ValueWhere(Cond(_)) ==
    Sum([k \in DOMAIN metrics_input |->
            IF Cond(metrics_input[k]) THEN metrics_input[k].current_value
            ELSE 0])

RECURSIVE SumOver(_, _)
SumOver(f, S) ==
    IF S = {} THEN 0
    ELSE LET s == CHOOSE x \in S : TRUE IN f[s] + SumOver(f, S \ {s})

\* C18: when the current values of the given holdings sum to 0, a non-empty
\* list of zero-value holdings included, calculate_portfolio_metrics does
\* not fail and the sector allocation it returns is an empty mapping.
C18_ZeroTotalEmptyAllocation ==
    (MetricsReturned /\ InputValue = 0) =>
        /\ "raised" \notin DOMAIN metrics
        /\ "sector_allocation" \in DOMAIN metrics
               => DOMAIN metrics.sector_allocation = {}

\* C19: when the total current value is > 0, the allocation of each sector
\* is its summed current value over the total, times 100, rounded to one
\* decimal; a symbol that the sector table does not list is counted in
\* Other; and the allocations sum to 100 within 0.1 per bucket.
C19_SectorAllocation ==
    (MetricsReturned /\ InputValue > 0) =>
        LET alloc == metrics.sector_allocation
            buckets == {sector_of(metrics_input[k].symbol) :
                            k \in DOMAIN metrics_input}
            unlisted(h) == h.symbol \notin DOMAIN sector_map
            drift == SumOver(alloc, DOMAIN alloc) - 1000
        IN  /\ DOMAIN alloc = buckets
            /\ \A s \in buckets :
                  alloc[s] = RoundDiv(
                      ValueWhere(LAMBDA h : sector_of(h.symbol) = s) * 1000,
                      InputValue)
            /\ (\E k \in DOMAIN metrics_input : unlisted(metrics_input[k]))
                  => /\ "Other" \in DOMAIN alloc
                     /\ alloc["Other"] =
                            RoundDiv(ValueWhere(unlisted) * 1000, InputValue)
            /\ drift =< Cardinality(buckets)
            /\ -drift =< Cardinality(buckets)

\* Three sectors, one of them Other with a share of its own, two symbols in
\* one sector, and allocations that do not add up to 100.0 exactly.
C19_Witness ==
    /\ MetricsReturned
    /\ InputValue > 0
    /\ "sector_allocation" \in DOMAIN metrics
    /\ Cardinality(DOMAIN metrics.sector_allocation) >= 3
    /\ "Other" \in DOMAIN metrics.sector_allocation
    /\ metrics.sector_allocation["Other"] > 0
    /\ \E i, j \in DOMAIN metrics_input :
          /\ metrics_input[i].symbol # metrics_input[j].symbol
          /\ sector_of(metrics_input[i].symbol)
                 = sector_of(metrics_input[j].symbol)
    /\ SumOver(metrics.sector_allocation, DOMAIN metrics.sector_allocation)
           # 1000

\* The place of the i-th given holding in a stable ordering by
\* gain_loss_percent, descending or ascending.
Place(i, descending) ==
    LET key(k) == IF descending THEN -metrics_input[k].gain_loss_percent
                  ELSE metrics_input[k].gain_loss_percent
    IN  1 + Cardinality({k \in DOMAIN metrics_input : key(k) < key(i)})
          + Cardinality({k \in DOMAIN metrics_input :
                             k < i /\ key(k) = key(i)})

\* C20: top_performers is the first min(3, n) of the n given holdings in
\* descending order of gain_loss_percent, worst_performers the first
\* min(3, n) in ascending order, equal percentages in input order in both,
\* and total_positions is n.
C20_StablePerformers ==
    MetricsReturned =>
        LET n == Len(metrics_input)
            m == IF n < 3 THEN n ELSE 3
        IN  /\ {"top_performers", "worst_performers", "total_positions"}
                   \subseteq DOMAIN metrics
            /\ metrics.total_positions = n
            /\ Len(metrics.top_performers) = m
            /\ Len(metrics.worst_performers) = m
            /\ \A i \in DOMAIN metrics_input :
                  /\ Place(i, TRUE) =< m
                        => metrics.top_performers[Place(i, TRUE)]
                               = metrics_input[i]
                  /\ Place(i, FALSE) =< m
                        => metrics.worst_performers[Place(i, FALSE)]
                               = metrics_input[i]

----------------------------------------------------------------------------
(* Properties of get_market_sentiment *)

\* The change_percent of the quotes that resolved in this call, summed.
ResolvedChange ==
    Sum([i \in DOMAIN basket_infos |->
            IF basket_infos[i] # None THEN basket_infos[i].change_percent
            ELSE 0])

ResolvedQuotes == {i \in DOMAIN basket_infos : basket_infos[i] # None}

\* C21: whatever quotes of the four-symbol basket resolve, avg_change is the
\* sum of change_percent over the resolved quotes divided by 4 (reported
\* with two decimals), never by the number of resolved quotes; with no quote
\* resolved avg_change is 0 and the call returns.
C21_AverageOverFullBasket ==
    sentiment_pc = "done" =>
        /\ Len(basket_infos) = 4
        /\ market_sentiment.avg_change = RoundDiv(ResolvedChange, 4)
        /\ ResolvedQuotes = {} => market_sentiment.avg_change = 0

\* Some but not all quotes resolved, and dividing by their number would
\* have given another average.
C21_Witness ==
    /\ sentiment_pc = "done"
    /\ Cardinality(ResolvedQuotes) \in 1..3
    /\ market_sentiment.avg_change # 0
    /\ market_sentiment.avg_change
           # RoundDiv(ResolvedChange, Cardinality(ResolvedQuotes))

----------------------------------------------------------------------------
(* Properties of the goals store *)

\* The rows of the goals table that have a goal type.
GoalRows(goal_type) ==
    {i \in DOMAIN goals : goals[i].goal_type = goal_type}

\* The update_goal calls made for a goal type, in order.
UpdatesOf(goal_type) ==
    SelectSeq(goal_updates, LAMBDA u : u.goal_type = goal_type)

\* C22: after any sequence of update_goal calls the goals table holds at
\* most one row per goal_type, and that row carries the target amount of the
\* most recent update_goal call for the type.
C22_OneGoalPerType ==
    \A goal_type \in GoalTypes :
        /\ Cardinality(GoalRows(goal_type)) =< 1
        /\ UpdatesOf(goal_type) # <<>> =>
              \E i \in GoalRows(goal_type) :
                  goals[i].target_amount
                      = UpdatesOf(goal_type)[Len(UpdatesOf(goal_type))].target_amount

----------------------------------------------------------------------------
(* Frame, order and totality of a pipeline run *)

\* C23: no step of a pipeline run writes the transaction store or changes
\* the processor's own state (its two credentials), however the run ends
\* and wherever it stops; the store changes only by the caller's save, which
\* is taken after a success result that has transactions, leaves the result
\* as it is and keeps the rows already stored.
C23_NoPersistentMutation ==
    [][/\ openai_api_key' = openai_api_key
       /\ anthropic_api_key' = anthropic_api_key
       /\ (stored_transactions' # stored_transactions \/ pc' = "saved")
             => /\ pc = "done"
                /\ pc' = "saved"
                /\ IsSuccess
                /\ result' = result
                /\ result.transactions # <<>>
                /\ \A i \in DOMAIN stored_transactions :
                      stored_transactions'[i] = stored_transactions[i]]_all_vars

\* Two records of a success result were saved; the store was empty through
\* the run that produced them.
C23_Witness ==
    /\ pc = "saved"
    /\ IsSuccess
    /\ result.transaction_count = 2
    /\ Len(stored_transactions) = 2
    /\ TotalCalls = 1

\* C24: the steps of a run are taken in order, each after the one before it
\* succeeded: the provider is dispatched, once, only when extraction gave
\* usable text; the completion is parsed only when the provider returned one;
\* a success result exists only when validation returned its list; and after
\* a step failed no later step is taken and the run ends in an error.
C24_StepsInOrder ==
    /\ dispatches \in {0, 1}
    /\ dispatches = 1 => UsableText
    /\ pc = "llm" => UsableText /\ dispatches = 0
    /\ pc = "parse" => dispatches = 1 /\ GotCompletion
    /\ pc \in {"llm", "parse"} => transactions = Unset /\ result = Pending
    /\ transactions # Unset => dispatches = 1 /\ GotCompletion /\ pc = "done"
    /\ IsSuccess => pc = "done" /\ transactions.type = "list"
    /\ (pc # "idle" /\ ~UsableText)
          => dispatches = 0 /\ transactions = Unset /\ pc = "done" /\ IsError
    /\ (dispatches = 1 /\ ~GotCompletion)
          => transactions = Unset /\ pc = "done" /\ IsError
    /\ (transactions # Unset /\ transactions.type = "str") => IsError

\* A run went through all its steps: usable text, one dispatch, a completion,
\* a validated list and the success result that carries it.
C24_Witness ==
    /\ pc = "done"
    /\ UsableText
    /\ dispatches = 1
    /\ GotCompletion
    /\ transactions.type = "list"
    /\ IsSuccess
    /\ result.transactions = transactions.items
    /\ result.transaction_count >= 1

\* A record as the validation loop builds it: the five keys, a date string
\* that strptime accepted and an amount that float() returned.
Validated(r) ==
    /\ DOMAIN r = AllKeys
    /\ r.date.t = "string"
    /\ r.date.s \in ParsableDates
    /\ r.amount.t = "float"

\* A str value: a sequence of characters and tokens.
IsString(value) == DOMAIN value = 1..Len(value)

\* C27: process_pdf_file always returns, and what it returns is exactly one
\* of two things: an error result, which has the error message and nothing
\* else, or a success result, which has success true, the list of validated
\* records and transaction_count equal to the length of that list. Every
\* step hands the next line a value it can take (a string where startswith
\* is called, a list or an error string where the result is built), whatever
\* the file, the provider, the keys, the provider's behaviour and the
\* completion are.
C27_TotalWithExclusiveOutcomes ==
    /\ pc # "done" => result = Pending
    /\ pc \in {"llm", "parse"} => IsString(extracted_text)
    /\ pc = "parse" =>
          /\ IsString(llm_response)
          /\ LET value == parse_llm_response(llm_response)
             IN  \/ value.type = "list"
                 \/ value.type = "str" /\ startswith(value.chars, ErrorWord)
    /\ pc = "done" =>
          /\ IsError # IsSuccess
          /\ IsError => DOMAIN result = {"error"} /\ result.error # <<>>
          /\ IsSuccess =>
                /\ result.success = TRUE
                /\ transactions.type = "list"
                /\ result.transactions = transactions.items
                /\ result.transaction_count = Len(result.transactions)
                /\ \A i \in DOMAIN result.transactions :
                      Validated(result.transactions[i])

\* A run returned although its completion was not an array: a bare JSON
\* object, which the loop walks key by key, gives the success result with an
\* empty list and count 0.
C27_Witness ==
    /\ pc = "done"
    /\ IsSuccess
    /\ GotCompletion
    /\ provider_reply.shape = "other"
    /\ result.transaction_count = 0

----------------------------------------------------------------------------
(* Quote fetches of a valuation *)

\* The fetches of the current call that have returned.
Returned == Len(stock_infos)

\* C25: in every get_portfolio_value call the quotes are asked for lot by lot
\* in lot order, one request per lot, the next request only after the one
\* before it returned, an unavailable quote is not asked for again, and the
\* result of a call is made of the quotes returned in that call, not of those
\* of the call before.
C25_OneFetchPerLotInOrder ==
    /\ Len(quote_requests) <= Len(portfolio_df)
    /\ \A i \in DOMAIN quote_requests :
          quote_requests[i] = portfolio_df[i].symbol
    /\ Len(quote_requests) = IF tracker_pc = "fetching" THEN Returned + 1
                             ELSE Returned
    /\ tracker_pc = "rows" => Returned < Len(portfolio_df)
    /\ Valued =>
          /\ Len(quote_requests) = Len(portfolio_df)
          /\ portfolio_data.total_value = round2(ResolvedValue)
          /\ portfolio_data.total_cost = round2(ResolvedCost)
          /\ Len(portfolio_data.holdings) = Cardinality(ResolvedRows)
          /\ \A i \in ResolvedRows :
                \E k \in DOMAIN portfolio_data.holdings :
                   HoldsRow(portfolio_data.holdings[k], i)

\* The same two lots were valued twice; the second call asked for both
\* quotes again, one was unavailable this time and was asked for once, and
\* the second result has one holding where the first had two.
C25_Witness ==
    /\ valuation_calls = 2
    /\ Valued
    /\ Len(portfolio_df) = 2
    /\ Len(quote_requests) = 2
    /\ Len(previous_data.holdings) = 2
    /\ Cardinality(ResolvedRows) = 1
    /\ Len(portfolio_data.holdings) = 1
    /\ portfolio_data.total_value # previous_data.total_value

\* The rows and their quotes, taken in the order p.
Reordered(seq, p) == [i \in DOMAIN seq |-> seq[p[i]]]

\* C26: the result of a valuation does not depend on the order in which the
\* lots are processed: the same lots with the same quotes, taken in any other
\* order, give the same totals and the same sequence of holdings, also when
\* two holdings have the same current_value.
C26_OrderIndependent ==
    Valued =>
        \A p \in Permutations(DOMAIN portfolio_df) :
           get_portfolio_value(Reordered(portfolio_df, p),
                               Reordered(stock_infos, p)) = portfolio_data

====
